---- MODULE Spec2Model ----
(***************************************************************************)
(* Model of src/mux/tab.rs: the Tab split tree (iter_panes, iter_splits,   *)
(* resize, prune_dead_panes, compute_split_size, split_and_insert,         *)
(* assign_pane) and the paste trickler (trickle_paste,                     *)
(* schedule_next_paste).                                                   *)
(***************************************************************************)
EXTENDS Integers, Sequences, FiniteSets, TLC

VARIABLES
    pane,        \* Tab.pane: the tree slot, NoTree while a cursor holds the tree
    size,        \* Tab.size
    active,      \* Tab.active
    dead,        \* ids of the panes whose is_dead() is true
    next_pane,   \* the id the next created pane gets
    resized,     \* the Pane::resize calls of the last operation, in order
    last,        \* the last operation, its arguments and what it returned
    panicked,    \* the thread has panicked
    checked,     \* the build has overflow checks (debug) or wraps (release)
    main_tasks,  \* tasks queued by spawn_into_main_thread
    registered,  \* pane ids the Mux registry holds
    pastes,      \* the Paste states of the trickle_paste calls made
    paste_tasks, \* scheduled schedule_next_paste tasks (indices into pastes)
    sent         \* the send_paste calls delivered, in order

tab_vars == <<pane, size, active, dead, next_pane, resized, last, main_tasks>>
paste_vars == <<pastes, paste_tasks, sent>>
vars == <<pane, size, active, dead, next_pane, resized, last, panicked, checked,
          main_tasks, registered, pastes, paste_tasks, sent>>

\* ------------------------------------------------------------------ bounds
MaxPanes == 3
MaxNested == 4
MaxChunks == 3
MaxPastes == 2
MaxRows == 5
MaxCols == 4
MaxTasks == 1

\* ------------------------------------------------------- integers and sizes
U16 == 2 ^ 16

Wrap16(x) == x % U16

Over16(x) == x < 0 \/ x >= U16

saturating_sub(a, b) == IF a >= b THEN a - b ELSE 0

Some(x) == <<x>>

None == <<>>

PtySize(r, c, pw, ph) ==
    [rows |-> r, cols |-> c, pixel_width |-> pw, pixel_height |-> ph]

Horizontal == "Horizontal"

Vertical == "Vertical"

SplitDirection == {Horizontal, Vertical}

SplitDirectionAndSize(d, l, t, f, s) ==
    [direction |-> d, left |-> l, top |-> t, first |-> f, second |-> s]

\* SplitDirectionAndSize::width; ovf: the u16 sum overflows;
\* bad: the assert_eq fails
width(n) ==
    IF n.direction = Horizontal
    THEN [val |-> Wrap16(n.first.cols + n.second.cols + 1),
          ovf |-> Over16(n.first.cols + n.second.cols + 1), bad |-> FALSE]
    ELSE [val |-> n.first.cols, ovf |-> FALSE,
          bad |-> n.first.cols # n.second.cols]

height(n) ==
    IF n.direction = Vertical
    THEN [val |-> Wrap16(n.first.rows + n.second.rows + 1),
          ovf |-> Over16(n.first.rows + n.second.rows + 1), bad |-> FALSE]
    ELSE [val |-> n.first.rows, ovf |-> FALSE,
          bad |-> n.first.rows # n.second.rows]

\* ------------------------------------------------- bintree: Tree and Cursor
Empty == [kind |-> "empty"]

Leaf(p) == [kind |-> "leaf", leaf |-> p]

Node(d, l, r) == [kind |-> "node", data |-> d, left |-> l, right |-> r]

NoTree == [kind |-> "none"]

RECURSIVE At(_, _)
At(t, p) ==
    IF p = << >> THEN t
    ELSE At(IF Head(p) = "L" THEN t.left ELSE t.right, Tail(p))

RECURSIVE Put(_, _, _)
Put(t, p, s) ==
    IF p = << >> THEN s
    ELSE IF Head(p) = "L"
         THEN [t EXCEPT !.left = Put(t.left, Tail(p), s)]
         ELSE [t EXCEPT !.right = Put(t.right, Tail(p), s)]

Front(p) == SubSeq(p, 1, Len(p) - 1)

Cursor(t, p) == [tree |-> t, path |-> p]

cursor(t) == Cursor(t, << >>)

it(c) == At(c.tree, c.path)

is_leaf(c) == it(c).kind = "leaf"

is_top(c) == c.path = << >>

is_right(c) == c.path # << >> /\ c.path[Len(c.path)] = "R"

is_left(c) == c.path # << >> /\ c.path[Len(c.path)] = "L"

\* the payloads (Option<N>) of the ancestors, the immediate parent first
path_to_root(c) ==
    [i \in 1..Len(c.path) |-> At(c.tree, SubSeq(c.path, 1, Len(c.path) - i)).data]

RECURSIVE ClimbToLeft(_)
ClimbToLeft(p) ==
    IF p = << >> THEN << >>
    ELSE IF p[Len(p)] = "L" THEN p ELSE ClimbToLeft(Front(p))

\* [ok, c]: Ok(cursor at the next position) or Err(cursor), pre-order
preorder_next(c) ==
    IF is_leaf(c)
    THEN LET q == ClimbToLeft(c.path)
         IN IF q = << >> THEN [ok |-> FALSE, c |-> c]
            ELSE [ok |-> TRUE, c |-> Cursor(c.tree, Append(Front(q), "R"))]
    ELSE IF it(c).kind = "node"
         THEN [ok |-> TRUE, c |-> Cursor(c.tree, Append(c.path, "L"))]
         ELSE [ok |-> FALSE, c |-> c]

RECURSIVE go_to_nth_leaf_from(_, _)
go_to_nth_leaf_from(c, n) ==
    IF is_leaf(c) /\ n = 0 THEN [ok |-> TRUE, c |-> c]
    ELSE LET nxt == preorder_next(c)
         IN IF nxt.ok
            THEN go_to_nth_leaf_from(nxt.c, IF is_leaf(c) THEN n - 1 ELSE n)
            ELSE [ok |-> FALSE, c |-> c]

go_to_nth_leaf(c, n) == go_to_nth_leaf_from(c, n)

assign_top(c, l) ==
    IF is_top(c) /\ it(c).kind = "empty"
    THEN [ok |-> TRUE, c |-> Cursor(Leaf(l), << >>)]
    ELSE [ok |-> FALSE, c |-> c]

split_leaf_and_insert_right(c, l) ==
    IF is_leaf(c)
    THEN [ok |-> TRUE,
          c |-> Cursor(Put(c.tree, c.path, Node(None, it(c), Leaf(l))), c.path)]
    ELSE [ok |-> FALSE, c |-> c]

assign_node(c, d) ==
    IF it(c).kind = "node"
    THEN [ok |-> TRUE, c |-> Cursor(Put(c.tree, c.path, [it(c) EXCEPT !.data = d]), c.path)]
    ELSE [ok |-> FALSE, c |-> c]

\* Ok((cursor at the sibling, now in the parent's place, the leaf, the
\* parent's payload)) or Err(cursor) at the root or off a leaf
unsplit_leaf(c) ==
    IF is_leaf(c) /\ ~is_top(c)
    THEN LET pp == Front(c.path)
             parent == At(c.tree, pp)
             sibling == IF is_left(c) THEN parent.right ELSE parent.left
         IN [ok |-> TRUE, c |-> Cursor(Put(c.tree, pp, sibling), pp),
             leaf |-> it(c).leaf, node |-> parent.data]
    ELSE [ok |-> FALSE, c |-> c, leaf |-> 0, node |-> None]

RECURSIVE Leaves(_)
Leaves(t) ==
    IF t.kind = "leaf" THEN <<t.leaf>>
    ELSE IF t.kind = "node" THEN Leaves(t.left) \o Leaves(t.right)
    ELSE << >>

leaf_count(t) == Len(Leaves(t))

\* ---------------------------------------------------------- Tab: iter_panes
PositionedPane(i, a, l, t, w, h, p) ==
    [index |-> i, is_active |-> a, left |-> l, top |-> t, width |-> w,
     height |-> h, pane |-> p]

\* the for loop over cursor.path_to_root() of iter_panes, from ancestor i on
RECURSIVE iter_panes_path(_, _, _, _)
iter_panes_path(nodes, i, is_second, acc) ==
    IF i > Len(nodes) THEN acc
    ELSE IF nodes[i] = None THEN iter_panes_path(nodes, i + 1, is_second, acc)
    ELSE LET node == nodes[i][1]
             nearest == acc.parent_size = None
             off_top == IF nearest /\ is_second /\ node.direction = Vertical
                        THEN node.first.rows + 1 ELSE 0
             off_left == IF nearest /\ is_second /\ node.direction = Horizontal
                         THEN node.first.cols + 1 ELSE 0
         IN iter_panes_path(nodes, i + 1, is_second,
                [parent_size |-> IF nearest
                                 THEN Some(IF is_second THEN node.second ELSE node.first)
                                 ELSE acc.parent_size,
                 left |-> acc.left + off_left + node.left,
                 top |-> acc.top + off_top + node.top])

iter_panes_leaf(c, index, sz, active_idx) ==
    LET acc == iter_panes_path(path_to_root(c), 1, is_right(c),
                               [parent_size |-> None, left |-> 0, top |-> 0])
        dims == IF acc.parent_size = None THEN sz ELSE acc.parent_size[1]
    IN PositionedPane(index, index = active_idx, acc.left, acc.top,
                      dims.cols, dims.rows, it(c).leaf)

\* iter_panes_loop putting back the subtree under the cursor, not c.tree()
RECURSIVE iter_panes_loop_subtree(_, _, _, _)
iter_panes_loop_subtree(c, panes, sz, active_idx) ==
    LET panes2 == IF is_leaf(c)
                  THEN Append(panes, iter_panes_leaf(c, Len(panes), sz, active_idx))
                  ELSE panes
        nxt == preorder_next(c)
    IN IF nxt.ok THEN iter_panes_loop_subtree(nxt.c, panes2, sz, active_idx)
       ELSE [panes |-> panes2, tree |-> it(nxt.c)]

RECURSIVE iter_panes_loop(_, _, _, _)
iter_panes_loop(c, panes, sz, active_idx) ==
    LET panes2 == IF is_leaf(c)
                  THEN Append(panes, iter_panes_leaf(c, Len(panes), sz, active_idx))
                  ELSE panes
        nxt == preorder_next(c)
    IN IF nxt.ok THEN iter_panes_loop(nxt.c, panes2, sz, active_idx)
       ELSE [panes |-> panes2, tree |-> nxt.c.tree]

\* Tab::iter_panes on a tree slot that holds a tree: the list it returns
iter_panes(t, sz, active_idx) ==
    iter_panes_loop(cursor(t), << >>, sz, active_idx).panes

\* Tab::iter_panes: the tree it puts back into the slot
iter_panes_tree(t, sz, active_idx) ==
    iter_panes_loop(cursor(t), << >>, sz, active_idx).tree

\* --------------------------------------------------------- Tab: iter_splits
PositionedSplit(i, d, l, t, s) ==
    [index |-> i, direction |-> d, left |-> l, top |-> t, size |-> s]

RECURSIVE SumLeft(_, _)
SumLeft(nodes, i) ==
    IF i > Len(nodes) THEN 0
    ELSE (IF nodes[i] = None THEN 0 ELSE nodes[i][1].left) + SumLeft(nodes, i + 1)

RECURSIVE SumTop(_, _)
SumTop(nodes, i) ==
    IF i > Len(nodes) THEN 0
    ELSE (IF nodes[i] = None THEN 0 ELSE nodes[i][1].top) + SumTop(nodes, i + 1)

\* [dividers, index, ovf, bad]
RECURSIVE iter_splits_loop(_, _)
iter_splits_loop(c, st) ==
    LET here == it(c)
        st2 ==
            IF is_leaf(c) THEN st
            ELSE IF here.kind = "node" /\ here.data # None
                 THEN LET node == here.data[1]
                          left == SumLeft(path_to_root(c), 1) + node.left
                                  + (IF node.direction = Horizontal
                                     THEN node.first.cols ELSE 0)
                          top == SumTop(path_to_root(c), 1) + node.top
                                 + (IF node.direction = Vertical
                                    THEN node.first.rows ELSE 0)
                          sz == IF node.direction = Horizontal
                                THEN height(node) ELSE width(node)
                      IN [dividers |-> Append(st.dividers,
                              PositionedSplit(st.index, node.direction, left, top, sz.val)),
                          index |-> st.index + 1,
                          ovf |-> st.ovf \/ sz.ovf,
                          bad |-> st.bad \/ sz.bad]
                 ELSE [st EXCEPT !.index = st.index + 1]
        nxt == preorder_next(c)
    IN IF nxt.ok THEN iter_splits_loop(nxt.c, st2)
       ELSE [dividers |-> st2.dividers, ovf |-> st2.ovf, bad |-> st2.bad,
             tree |-> nxt.c.tree]

\* Tab::iter_splits on a tree slot that holds a tree:
\* [dividers, ovf, bad, tree: the tree it puts back]
iter_splits(t) ==
    iter_splits_loop(cursor(t),
        [dividers |-> << >>, index |-> 0, ovf |-> FALSE, bad |-> FALSE])

\* ----------------------------------------------------- Tab: cell_dimensions
cell_dimensions(sz) ==
    PtySize(1, 1, sz.pixel_width \div sz.cols, sz.pixel_height \div sz.rows)

\* -------------------------------------------------- Tab: compute_split_size
split_dimension(dim) ==
    LET halved == dim \div 2
    IN IF halved * 2 = dim
       THEN <<halved, saturating_sub(halved, 1)>>
       ELSE <<halved, halved>>

\* the SplitDirectionAndSize the closure of compute_split_size builds from
\* the (width1, width2) and (height1, height2) it matched
split_info_of(direction, left, top, w, h, cell_dims, back) ==
    [val |-> Some(SplitDirectionAndSize(direction, left, top,
                PtySize(h[1], w[1], Wrap16(cell_dims.pixel_width * w[1]),
                        Wrap16(cell_dims.pixel_height * h[1])),
                PtySize(h[2], w[2], Wrap16(cell_dims.pixel_width * w[2]),
                        Wrap16(cell_dims.pixel_height * h[2])))),
     ovf |-> \/ Over16(cell_dims.pixel_height * h[1])
             \/ Over16(cell_dims.pixel_width * w[1])
             \/ Over16(cell_dims.pixel_height * h[2])
             \/ Over16(cell_dims.pixel_width * w[2]),
     tree |-> back]

\* the closure `|pos| ...` of compute_split_size
split_size_of(pos, direction, cell_dims, back) ==
    split_info_of(direction, pos.left, pos.top,
        IF direction = Horizontal
        THEN split_dimension(pos.width) ELSE <<pos.width, pos.width>>,
        IF direction = Horizontal
        THEN <<pos.height, pos.height>> ELSE split_dimension(pos.height),
        cell_dims, back)

\* `self.iter_panes().iter().nth(pane_index).map(...)`
split_size_nth(walk, cell_dims, pane_index, direction) ==
    IF pane_index >= Len(walk.panes)
    THEN [val |-> None, ovf |-> FALSE, tree |-> walk.tree]
    ELSE split_size_of(walk.panes[pane_index + 1], direction, cell_dims, walk.tree)

\* Tab::compute_split_size on a tree slot that holds a tree:
\* [val: Option<SplitDirectionAndSize>, ovf: a u16 product overflows,
\*  tree: the tree its iter_panes call puts back]
compute_split_size(t, sz, active_idx, pane_index, direction) ==
    split_size_nth(iter_panes_loop(cursor(t), << >>, sz, active_idx),
                   cell_dimensions(sz), pane_index, direction)

\* -------------------------------------------------------------- Tab: resize
\* the body of `if let Ok(Some(node)) = cursor.node_mut()` in Tab::resize
resize_node(node, direction, sz, cell_width, cell_height) ==
    LET one_first_cols == 1 + node.first.cols
        one_first_rows == 1 + node.first.rows
        second_cols == sz.cols - Wrap16(one_first_cols)
        second_rows == sz.rows - Wrap16(one_first_rows)
        n1 == IF direction = Horizontal
              THEN [node EXCEPT !.first.rows = sz.rows,
                                !.second.rows = sz.rows,
                                !.second.cols = Wrap16(second_cols)]
              ELSE [node EXCEPT !.first.cols = sz.cols,
                                !.second.cols = sz.cols,
                                !.second.rows = Wrap16(second_rows)]
        fpw == n1.first.cols * cell_width
        fph == n1.first.rows * cell_height
        spw == n1.second.cols * cell_width
        sph == n1.second.rows * cell_height
    IN [val |-> [n1 EXCEPT !.first.pixel_width = Wrap16(fpw),
                           !.first.pixel_height = Wrap16(fph),
                           !.second.pixel_width = Wrap16(spw),
                           !.second.pixel_height = Wrap16(sph)],
        ovf |-> \/ (IF direction = Horizontal
                    THEN Over16(one_first_cols) \/ Over16(second_cols)
                    ELSE Over16(one_first_rows) \/ Over16(second_rows))
                \/ Over16(fpw) \/ Over16(fph) \/ Over16(spw) \/ Over16(sph)]

\* resize_available taking the parent's first slot for either child
resize_available_first(c, sz) ==
    LET up == path_to_root(c)
    IN IF Len(up) > 0 /\ up[1] # None
       THEN [direction |-> up[1][1].direction, pane_size |-> up[1][1].first]
       ELSE [direction |-> Horizontal, pane_size |-> sz]

\* `let (direction, pane_size) = ...` of Tab::resize
resize_available(c, sz) ==
    LET up == path_to_root(c)
    IN IF Len(up) > 0 /\ up[1] # None
       THEN [direction |-> up[1][1].direction,
             pane_size |-> IF is_right(c) THEN up[1][1].second ELSE up[1][1].first]
       ELSE [direction |-> Horizontal, pane_size |-> sz]

ResizeCall(p, sz) == [pane |-> p, size |-> sz]

\* the loop of Tab::resize; st = [log, ovf]
RECURSIVE resize_loop(_, _, _, _, _)
resize_loop(c, sz, cell_width, cell_height, st) ==
    LET avail == resize_available(c, sz)
        here == it(c)
        upd == resize_node(here.data[1], avail.direction, sz, cell_width, cell_height)
        c2 == IF ~is_leaf(c) /\ here.kind = "node" /\ here.data # None
              THEN Cursor(Put(c.tree, c.path, [here EXCEPT !.data = Some(upd.val)]), c.path)
              ELSE c
        st2 == IF is_leaf(c)
               THEN [st EXCEPT !.log = Append(st.log, ResizeCall(here.leaf, avail.pane_size))]
               ELSE IF here.kind = "node" /\ here.data # None
                    THEN [st EXCEPT !.ovf = st.ovf \/ upd.ovf]
                    ELSE st
        nxt == preorder_next(c2)
    IN IF nxt.ok THEN resize_loop(nxt.c, sz, cell_width, cell_height, st2)
       ELSE [tree |-> c2.tree, log |-> st2.log, ovf |-> st2.ovf]

\* Tab::resize on a tree slot that holds a tree: [tree, log, ovf]
resize(t, sz) ==
    resize_loop(cursor(t), sz, sz.pixel_width \div sz.cols,
                sz.pixel_height \div sz.rows, [log |-> << >>, ovf |-> FALSE])

\* ---------------------------------------------------- Tab: prune_dead_panes
\* the size the surviving leaf is resized to: [size, ovf]
prune_unsplit_size(parent, cell_dims) ==
    LET rows == IF parent.direction = Horizontal THEN parent.first.rows
                ELSE parent.first.rows + parent.second.rows + 1
        cols == IF parent.direction = Horizontal
                THEN parent.first.cols + parent.second.cols + 1
                ELSE parent.first.cols
        pw == cell_dims.pixel_width * Wrap16(cols)
        ph == cell_dims.pixel_height * Wrap16(rows)
    IN [size |-> PtySize(Wrap16(rows), Wrap16(cols), Wrap16(pw), Wrap16(ph)),
        ovf |-> Over16(rows) \/ Over16(cols) \/ Over16(pw) \/ Over16(ph)]

\* `if pane_index == active_idx { active_idx = pane_index.saturating_sub(1) }`
prune_active(pane_index, active_idx) ==
    IF pane_index = active_idx THEN saturating_sub(pane_index, 1) ELSE active_idx

\* the loop of Tab::prune_dead_panes;
\* st = [active_idx, pane_index, dead_panes, log, ovf]
RECURSIVE prune_loop(_, _, _, _)
prune_loop(c, st, dead_set, cell_dims) ==
    IF is_leaf(c) /\ it(c).leaf \in dead_set
    THEN LET st1 == [st EXCEPT !.active_idx = prune_active(st.pane_index, st.active_idx)]
             u == unsplit_leaf(c)
         IN IF ~u.ok
            THEN [tree |-> u.c.tree, active |-> st1.active_idx,
                  dead_panes |-> st1.dead_panes, log |-> st1.log, ovf |-> st1.ovf]
            ELSE LET parent == u.node[1]
                     us == prune_unsplit_size(parent, cell_dims)
                     st2 == [st1 EXCEPT
                               !.dead_panes = Append(st1.dead_panes, u.leaf),
                               !.log = IF is_leaf(u.c)
                                       THEN Append(st1.log, ResizeCall(it(u.c).leaf, us.size))
                                       ELSE st1.log,
                               !.ovf = st1.ovf \/ (is_leaf(u.c) /\ us.ovf),
                               !.pane_index = st1.pane_index + 1]
                     nxt == preorder_next(u.c)
                 IN IF nxt.ok THEN prune_loop(nxt.c, st2, dead_set, cell_dims)
                    ELSE [tree |-> u.c.tree, active |-> st2.active_idx,
                          dead_panes |-> st2.dead_panes, log |-> st2.log, ovf |-> st2.ovf]
    ELSE LET st2 == IF is_leaf(c) THEN [st EXCEPT !.pane_index = st.pane_index + 1] ELSE st
             nxt == preorder_next(c)
         IN IF nxt.ok THEN prune_loop(nxt.c, st2, dead_set, cell_dims)
            ELSE [tree |-> c.tree, active |-> st2.active_idx,
                  dead_panes |-> st2.dead_panes, log |-> st2.log, ovf |-> st2.ovf]

\* Tab::prune_dead_panes on a tree slot that holds a tree:
\* [tree, active, dead_panes, log, ovf]
prune_dead_panes(t, sz, active_idx, dead_set) ==
    prune_loop(cursor(t),
               [active_idx |-> active_idx, pane_index |-> 0, dead_panes |-> << >>,
                log |-> << >>, ovf |-> FALSE],
               dead_set, cell_dimensions(sz))

\* ---------------------------------------------------- Tab: split_and_insert
\* `existing_pane.resize(split_info.first)?; pane.resize(split_info.second)?`:
\* the calls made and whether `?` returns early; fail names the call that errs
split_resizes(existing, new, split_info, fail) ==
    [log |-> IF fail = "existing" THEN <<ResizeCall(existing, split_info.first)>>
             ELSE <<ResizeCall(existing, split_info.first),
                    ResizeCall(new, split_info.second)>>,
     returned |-> fail # "none"]

SplitResult(slot, active_idx, ret, log, ovf) ==
    [slot |-> slot, active |-> active_idx, ret |-> ret, log |-> log, ovf |-> ovf]

\* split_insert assigning the split information to the root node
split_insert_at_top(active_idx, pane_index, cs, rs, s) ==
    IF rs.returned
    THEN SplitResult(NoTree, active_idx, None, rs.log, cs.ovf)
    ELSE IF ~s.ok
    THEN SplitResult(s.c.tree, active_idx, None, rs.log, cs.ovf)
    ELSE SplitResult(assign_node(cursor(s.c.tree), cs.val).c.tree, pane_index + 1,
                     Some(pane_index + 1), rs.log, cs.ovf)

\* split_and_insert from split_leaf_and_insert_right on; rs: the resize calls
\* made, s: what split_leaf_and_insert_right returned
split_insert(active_idx, pane_index, cs, rs, s) ==
    IF rs.returned
    THEN SplitResult(NoTree, active_idx, None, rs.log, cs.ovf)
    ELSE IF ~s.ok
    THEN SplitResult(s.c.tree, active_idx, None, rs.log, cs.ovf)
    ELSE SplitResult(assign_node(s.c, cs.val).c.tree, pane_index + 1,
                     Some(pane_index + 1), rs.log, cs.ovf)

\* split_and_insert from go_to_nth_leaf's result g on
split_at(active_idx, pane_index, cs, g, new, fail) ==
    IF ~g.ok
    THEN SplitResult(g.c.tree, active_idx, None, << >>, cs.ovf)
    ELSE split_insert(active_idx, pane_index, cs,
                      split_resizes(it(g.c).leaf, new, cs.val[1], fail),
                      split_leaf_and_insert_right(g.c, new))

\* split_with storing the active index before it looks at cs
split_with_active_first(active_idx, pane_index, cs, new, fail) ==
    IF cs.val = None
    THEN SplitResult(cs.tree, pane_index + 1, None, << >>, cs.ovf)
    ELSE split_at(active_idx, pane_index, cs,
                  go_to_nth_leaf(cursor(cs.tree), pane_index), new, fail)

\* split_and_insert from compute_split_size's result cs on
split_with(active_idx, pane_index, cs, new, fail) ==
    IF cs.val = None
    THEN SplitResult(cs.tree, active_idx, None, << >>, cs.ovf)
    ELSE split_at(active_idx, pane_index, cs,
                  go_to_nth_leaf(cursor(cs.tree), pane_index), new, fail)

\* Tab::split_and_insert on a tree slot that holds a tree:
\* [slot, active, ret, log, ovf: compute_split_size overflows]
split_and_insert(t, sz, active_idx, pane_index, direction, new, fail) ==
    split_with(active_idx, pane_index,
               compute_split_size(t, sz, active_idx, pane_index, direction),
               new, fail)

\* --------------------------------------------------------- Tab: assign_pane
\* the tree assign_pane stores, or NoTree when it panics
assign_pane(p) ==
    LET a == assign_top(cursor(Empty), p)
    IN IF a.ok THEN a.c.tree ELSE NoTree

\* ------------------------------------------------------------ Tab: is_dead
\* the dead_count loop of Tab::is_dead over the list iter_panes returned
RECURSIVE dead_count(_, _, _)
dead_count(panes, i, dead_set) ==
    IF i > Len(panes) THEN 0
    ELSE (IF panes[i].pane \in dead_set THEN 1 ELSE 0) + dead_count(panes, i + 1, dead_set)

\* Tab::is_dead on a tree slot that holds a tree
is_dead(t, sz, active_idx, dead_set) ==
    dead_count(iter_panes(t, sz, active_idx), 1, dead_set)
        = Len(iter_panes(t, sz, active_idx))

\* ---------------------------------------------------- Tab: get_active_pane
\* `.nth(active).map(|p| Rc::clone(&p.pane))` over the list panes
nth_pane(panes, n) == IF n < Len(panes) THEN Some(panes[n + 1].pane) ELSE None

\* Tab::get_active_pane on a tree slot that holds a tree
get_active_pane(t, sz, active_idx) == nth_pane(iter_panes(t, sz, active_idx), active_idx)

\* --------------------------------------------------------- alloc_pane_id
\* PANE_ID.fetch_add(1): the id returned is the counter's value before the add
alloc_pane_id(counter) == [id |-> counter, counter |-> counter + 1]

\* ------------------------------------------------------------ Tab: actions
Range(q) == {q[i] : i \in 1..Len(q)}

SizeOf(r, c) == PtySize(r, c, c * 10 + 1, r * 25)

\* the outer sizes a Tab is created with and resized to
Sizes == {SizeOf(MaxRows - 1, MaxCols - 1), SizeOf(MaxRows, MaxCols)}

Last(op, idx, dir, ret) == [op |-> op, idx |-> idx, dir |-> dir, ret |-> ret]

\* Tab::new, with an empty Mux task queue
Init ==
    /\ pane = Empty
    /\ size \in Sizes
    /\ active = 0
    /\ dead = {}
    /\ next_pane = 0
    /\ resized = << >>
    /\ last = Last("new", 0, Horizontal, None)
    /\ panicked = FALSE
    /\ checked \in BOOLEAN
    /\ main_tasks = << >>
    /\ registered = 0..(MaxNested - 1)
    /\ pastes = << >>
    /\ paste_tasks = {}
    /\ sent = << >>

\* a panic of the operation op; slot is what the tree slot holds as it unwinds
Panic(op, slot) ==
    /\ panicked' = TRUE
    /\ pane' = slot
    /\ last' = Last(op, 0, Horizontal, None)
    /\ UNCHANGED <<size, active, dead, next_pane, resized, checked, main_tasks,
                   registered, paste_vars>>

AssignPane(limit) ==
    /\ ~panicked
    /\ next_pane < limit
    /\ IF assign_pane(alloc_pane_id(next_pane).id) = NoTree
       THEN Panic("assign_pane", pane)
       ELSE /\ pane' = assign_pane(alloc_pane_id(next_pane).id)
            /\ next_pane' = alloc_pane_id(next_pane).counter
            /\ resized' = << >>
            /\ last' = Last("assign_pane", 0, Horizontal, None)
            /\ UNCHANGED <<size, active, dead, panicked, checked, main_tasks,
                           registered, paste_vars>>

IterPanes ==
    /\ ~panicked
    /\ IF pane = NoTree
       THEN Panic("iter_panes", NoTree)
       ELSE /\ pane' = iter_panes_tree(pane, size, active)
            /\ UNCHANGED <<size, active, dead, next_pane, resized, last, panicked,
                           checked, main_tasks, registered, paste_vars>>

IterSplits ==
    /\ ~panicked
    /\ IF pane = NoTree
       THEN Panic("iter_splits", NoTree)
       ELSE IF iter_splits(pane).bad \/ (iter_splits(pane).ovf /\ checked)
       THEN Panic("iter_splits", NoTree)
       ELSE /\ pane' = iter_splits(pane).tree
            /\ UNCHANGED <<size, active, dead, next_pane, resized, last, panicked,
                           checked, main_tasks, registered, paste_vars>>

ComputeSplitSize(pane_index, direction) ==
    /\ ~panicked
    /\ IF pane = NoTree
       THEN Panic("compute_split_size", NoTree)
       ELSE LET r == compute_split_size(pane, size, active, pane_index, direction)
            IN IF r.ovf /\ checked
               THEN Panic("compute_split_size", pane)
               ELSE /\ pane' = r.tree
                    /\ UNCHANGED <<size, active, dead, next_pane, resized, last,
                                   panicked, checked, main_tasks, registered,
                                   paste_vars>>

Resize(sz) ==
    /\ ~panicked
    /\ IF pane = NoTree
       THEN Panic("resize", NoTree)
       ELSE LET r == resize(pane, sz)
            IN IF r.ovf /\ checked
               THEN Panic("resize", NoTree)
               ELSE /\ pane' = r.tree
                    /\ size' = sz
                    /\ resized' = r.log
                    /\ last' = Last("resize", 0, Horizontal, None)
                    /\ UNCHANGED <<active, dead, next_pane, panicked, checked,
                                   main_tasks, registered, paste_vars>>

PruneDeadPanes ==
    /\ ~panicked
    /\ Len(main_tasks) < MaxTasks
    /\ IF pane = NoTree
       THEN Panic("prune_dead_panes", NoTree)
       ELSE LET r == prune_dead_panes(pane, size, active, dead)
            IN IF r.ovf /\ checked
               THEN Panic("prune_dead_panes", NoTree)
               ELSE /\ pane' = r.tree
                    /\ active' = r.active
                    /\ resized' = r.log
                    /\ main_tasks' = Append(main_tasks, r.dead_panes)
                    /\ last' = Last("prune_dead_panes", 0, Horizontal, None)
                    /\ UNCHANGED <<size, dead, next_pane, panicked, checked,
                                   registered, paste_vars>>

\* the Pane::resize call of split_and_insert that returns an error, if any
ResizeFailures(t, pane_index) ==
    IF pane_index < leaf_count(t) THEN {"none", "existing", "new"} ELSE {"none"}

SplitAndInsert(limit, pane_index, direction) ==
    /\ ~panicked
    /\ next_pane < limit
    /\ IF pane = NoTree
       THEN Panic("split_and_insert", NoTree)
       ELSE \E fail \in ResizeFailures(pane, pane_index) :
            LET r == split_and_insert(pane, size, active, pane_index, direction,
                                      alloc_pane_id(next_pane).id, fail)
            IN IF r.ovf /\ checked
               THEN Panic("split_and_insert", pane)
               ELSE /\ pane' = r.slot
                    /\ active' = r.active
                    /\ resized' = r.log
                    /\ next_pane' = IF r.ret = None THEN next_pane
                                    ELSE alloc_pane_id(next_pane).counter
                    /\ last' = Last("split_and_insert", pane_index, direction, r.ret)
                    /\ UNCHANGED <<size, dead, panicked, checked, main_tasks,
                                   registered, paste_vars>>

\* Tab::is_dead: one iter_panes call, which takes the tree and puts it back
IsDead ==
    /\ ~panicked
    /\ IF pane = NoTree
       THEN Panic("is_dead", NoTree)
       ELSE /\ pane' = iter_panes_tree(pane, size, active)
            /\ UNCHANGED <<size, active, dead, next_pane, resized, last, panicked,
                           checked, main_tasks, registered, paste_vars>>

\* the process of a pane exits: Pane::is_dead turns true
PaneDies(p) ==
    /\ ~panicked
    /\ pane # NoTree
    /\ p \in Range(Leaves(pane)) \ dead
    /\ dead' = dead \cup {p}
    /\ UNCHANGED <<pane, size, active, next_pane, resized, last, panicked, checked,
                   main_tasks, registered, paste_vars>>

\* the task prune_dead_panes spawned into the main thread runs
RemovePanesTask ==
    /\ ~panicked
    /\ main_tasks # << >>
    /\ registered' = registered \ Range(Head(main_tasks))
    /\ main_tasks' = Tail(main_tasks)
    /\ UNCHANGED <<pane, size, active, dead, next_pane, resized, last, panicked,
                   checked, paste_vars>>

Next ==
    \/ AssignPane(MaxPanes)
    \/ IterPanes
    \/ IterSplits
    \/ \E i \in 0..MaxPanes, d \in SplitDirection : ComputeSplitSize(i, d)
    \/ \E sz \in Sizes : Resize(sz)
    \/ PruneDeadPanes
    \/ IsDead
    \/ \E i \in 0..MaxPanes, d \in SplitDirection : SplitAndInsert(MaxPanes, i, d)
    \/ \E p \in 0..(MaxPanes - 1) : PaneDies(p)
    \/ RemovePanesTask

Spec == Init /\ [][Next]_vars

\* only assign_pane, split_and_insert and the queries, on deeper trees
SplitNext ==
    \/ AssignPane(MaxNested)
    \/ IterPanes
    \/ IterSplits
    \/ \E i \in 0..MaxNested, d \in SplitDirection : ComputeSplitSize(i, d)
    \/ \E i \in 0..MaxNested, d \in SplitDirection : SplitAndInsert(MaxNested, i, d)

SplitSpec == Init /\ [][SplitNext]_vars

\* ------------------------------------------------------------ paste trickler
PASTE_CHUNK_SIZE == 1024

\* A String: len bytes, byte i being the i-th byte of the text; wide holds the
\* offsets at which a two-byte character starts (every other byte is a
\* one-byte character)
Text(n, w) == [len |-> n, wide |-> w]

is_char_boundary(text, i) == i = 0 \/ i = text.len \/ (i - 1) \notin text.wide

\* &text[from..to]: the bytes from..to-1, or a panic
Slice(text, from, to) ==
    [from |-> from, to |-> to,
     bad |-> \/ from > to
             \/ to > text.len
             \/ ~is_char_boundary(text, from)
             \/ ~is_char_boundary(text, to)]

Lens ==
    {k * PASTE_CHUNK_SIZE + d : k \in 0..(MaxChunks - 1), d \in {0, 1}}
        \cup {MaxChunks * PASTE_CHUNK_SIZE}

Texts ==
    {Text(n, {}) : n \in Lens}
        \cup UNION {{Text(n, {k * PASTE_CHUNK_SIZE - 1}) :
                        k \in {j \in 1..MaxChunks : j * PASTE_CHUNK_SIZE < n}} :
                     n \in Lens}

PastePanes == {0, 1}

SendPaste(p, k, from, to) == [pane |-> p, paste |-> k, from |-> from, to |-> to]

Paste(p, text, offset, shared) ==
    [pane_id |-> p, text |-> text, offset |-> offset, shared |-> shared]

PasteInit ==
    /\ pane = Empty
    /\ size = SizeOf(MaxRows, MaxCols)
    /\ active = 0
    /\ dead = {}
    /\ next_pane = 0
    /\ resized = << >>
    /\ last = Last("new", 0, Horizontal, None)
    /\ panicked = FALSE
    /\ checked = TRUE
    /\ main_tasks = << >>
    /\ registered = PastePanes
    /\ pastes = << >>
    /\ paste_tasks = {}
    /\ sent = << >>

\* the send_paste calls of the paste k, in the order they were made
SentOf(k) == SelectSeq(sent, LAMBDA c : c.paste = k)

\* Pane::trickle_paste(text) on the pane p; pastes records the call, and the
\* Paste it shares with its tasks when it makes one
TricklePaste(p, text) ==
    /\ ~panicked
    /\ Len(pastes) < MaxPastes
    /\ LET k == Len(pastes) + 1
           first == Slice(text, 0, PASTE_CHUNK_SIZE)
       IN IF text.len <= PASTE_CHUNK_SIZE
          THEN /\ sent' = Append(sent, SendPaste(p, k, 0, text.len))
               /\ pastes' = Append(pastes, Paste(p, text, 0, FALSE))
               /\ UNCHANGED <<paste_tasks, panicked>>
          ELSE IF first.bad
          THEN /\ panicked' = TRUE
               /\ pastes' = Append(pastes, Paste(p, text, 0, FALSE))
               /\ UNCHANGED <<paste_tasks, sent>>
          ELSE /\ sent' = Append(sent, SendPaste(p, k, first.from, first.to))
               /\ pastes' = Append(pastes, Paste(p, text, PASTE_CHUNK_SIZE, TRUE))
               /\ paste_tasks' = paste_tasks \cup {k}
               /\ UNCHANGED panicked
    /\ UNCHANGED <<tab_vars, checked, registered>>

\* PasteTask without `locked.offset += chunk`
PasteTask_offset_kept(k) ==
    /\ ~panicked
    /\ k \in paste_tasks
    /\ LET locked == pastes[k]
           remain == locked.text.len - locked.offset
           chunk == IF remain < PASTE_CHUNK_SIZE THEN remain ELSE PASTE_CHUNK_SIZE
           text_slice == Slice(locked.text, locked.offset, locked.offset + chunk)
       IN IF locked.pane_id \notin registered \/ text_slice.bad
          THEN /\ panicked' = TRUE
               /\ paste_tasks' = paste_tasks \ {k}
               /\ UNCHANGED <<pastes, sent>>
          ELSE /\ sent' = Append(sent, SendPaste(locked.pane_id, k,
                                                 text_slice.from, text_slice.to))
               /\ IF chunk < remain /\ Len(SentOf(k)) < MaxChunks
                  THEN UNCHANGED <<pastes, paste_tasks>>
                  ELSE /\ paste_tasks' = paste_tasks \ {k}
                       /\ UNCHANGED pastes
               /\ UNCHANGED panicked
    /\ UNCHANGED <<tab_vars, checked, registered>>

\* the task schedule_next_paste spawned for the paste k runs
PasteTask(k) ==
    /\ ~panicked
    /\ k \in paste_tasks
    /\ LET locked == pastes[k]
           remain == locked.text.len - locked.offset
           chunk == IF remain < PASTE_CHUNK_SIZE THEN remain ELSE PASTE_CHUNK_SIZE
           text_slice == Slice(locked.text, locked.offset, locked.offset + chunk)
       IN IF locked.pane_id \notin registered \/ text_slice.bad
          THEN /\ panicked' = TRUE
               /\ paste_tasks' = paste_tasks \ {k}
               /\ UNCHANGED <<pastes, sent>>
          ELSE /\ sent' = Append(sent, SendPaste(locked.pane_id, k,
                                                 text_slice.from, text_slice.to))
               /\ IF chunk < remain
                  THEN /\ pastes' = [pastes EXCEPT ![k].offset = locked.offset + chunk]
                       /\ UNCHANGED paste_tasks
                  ELSE /\ paste_tasks' = paste_tasks \ {k}
                       /\ UNCHANGED pastes
               /\ UNCHANGED panicked
    /\ UNCHANGED <<tab_vars, checked, registered>>

\* Mux::remove_pane(p), as the task spawned by prune_dead_panes calls it
RemovePane(p) ==
    /\ ~panicked
    /\ p \in registered
    /\ registered' = registered \ {p}
    /\ UNCHANGED <<tab_vars, panicked, checked, paste_vars>>

PasteNext ==
    \/ \E p \in PastePanes, text \in Texts : TricklePaste(p, text)
    \/ \E k \in 1..MaxPastes : PasteTask(k)
    \/ \E p \in PastePanes : RemovePane(p)

PasteSpec == PasteInit /\ [][PasteNext]_vars

\* the executor runs every task that promise::spawn::spawn queued
PasteFairSpec ==
    PasteSpec /\ \A k \in 1..MaxPastes : WF_vars(PasteTask(k))

\* ================================================================== claims
TreeHeld == ~panicked /\ pane # NoTree

\* every split node of t tiles the slot of rows x cols cells it is given
RECURSIVE Tiles(_, _, _)
Tiles(t, rows, cols) ==
    IF t.kind # "node" THEN TRUE
    ELSE LET n == t.data[1]
         IN /\ IF n.direction = Horizontal
               THEN /\ n.first.cols + 1 + n.second.cols = cols
                    /\ n.first.rows = rows
                    /\ n.second.rows = rows
               ELSE /\ n.first.rows + 1 + n.second.rows = rows
                    /\ n.first.cols = cols
                    /\ n.second.cols = cols
            /\ Tiles(t.left, n.first.rows, n.first.cols)
            /\ Tiles(t.right, n.second.rows, n.second.cols)

\* C1: after any sequence of assign_pane, split_and_insert, resize and
\* prune_dead_panes, every split node has first + 1 + second equal to the
\* dimension of the slot its parent gives it (the outer size at the root) on
\* its split axis, and first, second and the slot equal on the other axis.
C1_AreaConservation == TreeHeld => Tiles(pane, size.rows, size.cols)

Cells(left, top, w, h) ==
    {<<x, y>> : x \in left..(left + w - 1), y \in top..(top + h - 1)}

PaneCells(pos) == Cells(pos.left, pos.top, pos.width, pos.height)

SplitCells(sp) ==
    IF sp.direction = Horizontal
    THEN Cells(sp.left, sp.top, 1, sp.size)
    ELSE Cells(sp.left, sp.top, sp.size, 1)

\* C2: after any sequence of assign_pane and split_and_insert calls the
\* rectangles iter_panes reports are pairwise disjoint, lie inside the outer
\* rectangle, and with the divider lines of iter_splits cover every cell of it.
C2_CoverageNoOverlap ==
    (TreeHeld /\ leaf_count(pane) > 0) =>
        LET panes == iter_panes(pane, size, active)
            splits == iter_splits(pane).dividers
            outer == Cells(0, 0, size.cols, size.rows)
        IN /\ \A i, j \in 1..Len(panes) :
                  i # j => PaneCells(panes[i]) \cap PaneCells(panes[j]) = {}
           /\ \A i \in 1..Len(panes) : PaneCells(panes[i]) \subseteq outer
           /\ outer \subseteq
                  UNION ({PaneCells(panes[i]) : i \in 1..Len(panes)}
                         \cup {SplitCells(splits[i]) : i \in 1..Len(splits)})

\* C3: after any sequence of assign_pane, split_and_insert, resize and
\* prune_dead_panes, a tree with at least one leaf has 0 <= active < leaf_count.
C3_ActiveBounds ==
    (TreeHeld /\ leaf_count(pane) > 0) => (0 <= active /\ active < leaf_count(pane))

\* C4: every exit path of iter_panes, iter_splits, resize, prune_dead_panes and
\* split_and_insert leaves the tree slot holding a tree, also when a pane's
\* resize fails inside split_and_insert.
C4_TreeRestored == ~panicked => pane # NoTree

\* the chunks cs are the bytes 0..n-1 once each and in order
Concatenates(cs, n) ==
    /\ Len(cs) > 0
    /\ cs[1].from = 0
    /\ cs[Len(cs)].to = n
    /\ \A i \in 1..(Len(cs) - 1) : cs[i + 1].from = cs[i].to

\* C5: once a trickle_paste(text) and the tasks it scheduled have run with the
\* target pane still registered, the chunks sent to the pane concatenate to
\* the text, in order, no byte lost or sent twice, and every chunk sent is at
\* most PASTE_CHUNK_SIZE bytes.
C5_PasteComplete ==
    /\ \A i \in 1..Len(sent) : sent[i].to - sent[i].from <= PASTE_CHUNK_SIZE
    /\ \A k \in 1..Len(pastes) :
           (pastes[k].pane_id \in registered /\ k \notin paste_tasks) =>
               Concatenates(SentOf(k), pastes[k].text.len)

\* what C6 says of the panes iter_panes lists before and after a split of the
\* pane n that computed the sizes cs and inserted the pane new
SplitListed(before, after, cs, n, new) ==
    /\ Len(after) = Len(before) + 1
    /\ after[n + 1].pane = before[n + 1].pane
    /\ after[n + 1].left = before[n + 1].left
    /\ after[n + 1].top = before[n + 1].top
    /\ after[n + 1].width = cs.first.cols
    /\ after[n + 1].height = cs.first.rows
    /\ after[n + 2].pane = new
    /\ after[n + 2].width = cs.second.cols
    /\ after[n + 2].height = cs.second.rows
    /\ IF cs.direction = Horizontal
       THEN /\ after[n + 2].left = after[n + 1].left + cs.first.cols + 1
            /\ after[n + 2].top = after[n + 1].top
       ELSE /\ after[n + 2].top = after[n + 1].top + cs.first.rows + 1
            /\ after[n + 2].left = after[n + 1].left

SplitSucceeds ==
    /\ last'.op = "split_and_insert"
    /\ last'.ret # None
    /\ next_pane' = next_pane + 1

\* C6: a successful split_and_insert(n, direction, new_pane) returns n + 1,
\* makes n + 1 the active index, and iter_panes then lists one pane more: the
\* existing pane at index n, at its old left and top with the computed first
\* size, and new_pane at index n + 1 with the computed second size, first + 1
\* cells further along the split axis.
C6_SplitInserts ==
    [][SplitSucceeds =>
        /\ last'.ret = Some(last'.idx + 1)
        /\ active' = last'.idx + 1
        /\ SplitListed(iter_panes(pane, size, active),
                       iter_panes(pane', size', active'),
                       compute_split_size(pane, size, active, last'.idx,
                                          last'.dir).val[1],
                       last'.idx, next_pane)]_vars

Halves(d, first, second) == first = d \div 2 /\ first + 1 + second = d

PixelsOf(sz, cell_dims) ==
    /\ sz.pixel_width = sz.cols * cell_dims.pixel_width
    /\ sz.pixel_height = sz.rows * cell_dims.pixel_height

\* what C7 says of the sizes s computed for a split of the pane at pos
SplitSizes(pos, s, cell_dims) ==
    /\ IF s.direction = Horizontal
       THEN /\ Halves(pos.width, s.first.cols, s.second.cols)
            /\ s.first.rows = pos.height
            /\ s.second.rows = pos.height
       ELSE /\ Halves(pos.height, s.first.rows, s.second.rows)
            /\ s.first.cols = pos.width
            /\ s.second.cols = pos.width
    /\ s.left = pos.left
    /\ s.top = pos.top
    /\ PixelsOf(s.first, cell_dims)
    /\ PixelsOf(s.second, cell_dims)

\* C7: for every pane and direction compute_split_size returns sizes with
\* first = floor(d / 2) and first + 1 + second = d on the split axis, d being the
\* pane's width (Horizontal) or height (Vertical), both children equal to the
\* pane on the other axis, left and top those of the pane, and every pixel
\* dimension the cell count times the Tab's cell dimension.
C7_SplitSizes ==
    TreeHeld =>
        \A i \in 1..leaf_count(pane), d \in SplitDirection :
            SplitSizes(iter_panes(pane, size, active)[i],
                       compute_split_size(pane, size, active, i - 1, d).val[1],
                       cell_dimensions(size))

\* a call split_and_insert(pane_index, ..) with pane_index >= leaf_count returns
SplitOutOfRange ==
    /\ TreeHeld
    /\ ~panicked'
    /\ last'.op = "split_and_insert"
    /\ last'.idx >= leaf_count(pane)

\* C8: compute_split_size(pane_index, _) is None exactly when pane_index >=
\* leaf_count, and split_and_insert with such a pane_index returns an error,
\* leaves the tree, the outer size and the active index as they were and
\* calls no pane's resize.
C8_InvalidIndex ==
    /\ [](TreeHeld =>
            \A i \in 0..MaxNested, d \in SplitDirection :
                (compute_split_size(pane, size, active, i, d).val = None)
                    <=> (i >= leaf_count(pane)))
    /\ [][SplitOutOfRange =>
            /\ last'.ret = None
            /\ pane' = pane
            /\ size' = size
            /\ active' = active
            /\ resized' = << >>]_vars

\* a split_and_insert with an index past the last pane of a split tree failed
C8_Witness ==
    /\ TreeHeld
    /\ leaf_count(pane) > 1
    /\ last.op = "split_and_insert"
    /\ last.idx >= leaf_count(pane)
    /\ last.ret = None

\* the cell count of a node's first child on the node's own split axis
FirstOnAxis(n) == IF n.direction = Horizontal THEN n.first.cols ELSE n.first.rows

\* every split node of the tree t has the FirstOnAxis it has in the tree u
RECURSIVE FirstKept(_, _)
FirstKept(t, u) ==
    IF t.kind # "node" THEN TRUE
    ELSE /\ u.kind = "node"
         /\ FirstOnAxis(u.data[1]) = FirstOnAxis(t.data[1])
         /\ FirstKept(t.left, u.left)
         /\ FirstKept(t.right, u.right)

\* a resize to a larger outer size returns
ResizeGrows ==
    /\ TreeHeld
    /\ ~panicked'
    /\ last'.op = "resize"
    /\ size'.rows >= size.rows
    /\ size'.cols >= size.cols
    /\ size' # size

\* C9: after a resize that grows the outer size every split node's first child
\* has the cell count it had before on the node's own split axis (cols of a
\* Horizontal node, rows of a Vertical node), the root and nested nodes alike.
C9_ResizeKeepsFirst == [][ResizeGrows => FirstKept(pane, pane')]_vars

\* the position of the leaf p in the tree t, which holds it
RECURSIVE PathOf(_, _)
PathOf(t, p) ==
    IF t.kind = "leaf" THEN << >>
    ELSE IF p \in Range(Leaves(t.left)) THEN <<"L">> \o PathOf(t.left, p)
    ELSE <<"R">> \o PathOf(t.right, p)

Sibling(t, path) ==
    IF path[Len(path)] = "L" THEN At(t, Front(path)).right ELSE At(t, Front(path)).left

TotalRows(n) ==
    IF n.direction = Horizontal THEN n.first.rows ELSE n.first.rows + n.second.rows + 1

TotalCols(n) ==
    IF n.direction = Horizontal THEN n.first.cols + n.second.cols + 1 ELSE n.first.cols

\* what C10 says of the sibling that took the place at, in the tree after and
\* the resize calls log, given the area rows x cols of the parent before
Inherits(sibling, after, log, rows, cols) ==
    IF sibling.kind = "leaf"
    THEN /\ after = sibling
         /\ \E i \in 1..Len(log) :
                /\ log[i].pane = sibling.leaf
                /\ log[i].size.rows = rows
                /\ log[i].size.cols = cols
    ELSE /\ after.kind = "node"
         /\ Leaves(after) = Leaves(sibling)
         /\ Tiles(after, rows, cols)

\* the leaf at path of the tree before was pruned
PruneCollapses(before, after, log, path) ==
    Inherits(Sibling(before, path), At(after, Front(path)), log,
             TotalRows(At(before, Front(path)).data[1]),
             TotalCols(At(before, Front(path)).data[1]))

\* prune_dead_panes runs on a split tree in which one pane is dead
PrunesOne ==
    /\ TreeHeld
    /\ ~panicked'
    /\ Len(main_tasks') = Len(main_tasks) + 1
    /\ leaf_count(pane) > 1
    /\ Cardinality(dead \cap Range(Leaves(pane))) = 1

\* C10: after prune_dead_panes removes a dead leaf under a split node, the
\* sibling has the parent's place and the parent's prior area, first + second
\* + 1 on the split axis and the shared dimension on the other: a leaf sibling
\* is resized to it, a split-node sibling's first and second tile it.
C10_PruneCollapse ==
    [][PrunesOne =>
        PruneCollapses(pane, pane', resized',
                       PathOf(pane, CHOOSE p \in dead : p \in Range(Leaves(pane))))]_vars

\* the task of the paste k runs after its pane left the Mux registry
TaskFindsNoPane(k) ==
    /\ ~panicked
    /\ k \in paste_tasks
    /\ pastes[k].pane_id \notin registered
    /\ k \notin paste_tasks'

\* C11: a scheduled paste task that finds its pane removed from the Mux
\* registry ends without a panic, sends nothing and schedules no further task.
C11_MissingPaneSilent ==
    [][\A k \in 1..Len(pastes) :
          TaskFindsNoPane(k) =>
              /\ ~panicked'
              /\ sent' = sent
              /\ paste_tasks' = paste_tasks \ {k}]_vars

\* assign_pane is called on a tree that holds a pane, and returns or panics
AssignOnPanes ==
    /\ TreeHeld
    /\ leaf_count(pane) > 0
    /\ last'.op = "assign_pane"
    /\ (next_pane' = next_pane + 1 \/ panicked')

\* C12: assign_pane on a Tab whose tree already holds a pane panics; it never
\* returns having replaced the tree with a one-leaf tree.
C12_DoubleRootRejected == [][AssignOnPanes => (panicked' /\ pane' = pane)]_vars

\* the list panes holds the leaves in pre-order, numbered from 0
ListsLeaves(panes, leaves) ==
    /\ Len(panes) = Len(leaves)
    /\ \A i \in 1..Len(panes) : panes[i].pane = leaves[i] /\ panes[i].index = i - 1

\* the walk of iter_panes over the tree t lists its leaves and puts t back,
\* and a second walk over what it put back returns the same list
WalkStable(walk, t, sz, active_idx) ==
    /\ ListsLeaves(walk.panes, Leaves(t))
    /\ walk.tree = t
    /\ iter_panes(walk.tree, sz, active_idx) = walk.panes

\* a query that returns (no failed assertion, no checked overflow) put back t
PutsBack(r, t) == (r.bad \/ (r.ovf /\ checked)) \/ r.tree = t

\* C13: iter_panes returns the leaves in pre-order with the indices
\* 0..leaf_count-1; iter_panes, iter_splits and compute_split_size put the
\* tree back as it was (they touch neither the outer size nor the active
\* index), so a second iter_panes returns the same list.
C13_PreorderStable ==
    TreeHeld =>
        /\ WalkStable(iter_panes_loop(cursor(pane), << >>, size, active),
                      pane, size, active)
        /\ iter_panes_tree(pane, size, active) = pane
        /\ PutsBack(iter_splits(pane), pane)
        /\ \A i \in 0..MaxPanes, d \in SplitDirection :
               PutsBack([bad |-> FALSE] @@ compute_split_size(pane, size, active, i, d),
                        pane)

\* a tree of three panes with a split under the root's first child, held
\* after a query ran on it
C13_Witness ==
    /\ TreeHeld
    /\ leaf_count(pane) = 3
    /\ pane.left.kind = "node"
    /\ Len(iter_panes(pane, size, active)) = 3
    /\ last.op = "split_and_insert"

MinOf(S) == CHOOSE x \in S : \A y \in S : x <= y

MaxOf(S) == CHOOSE x \in S : \A y \in S : x >= y

\* the split nodes of t in pre-order, each with its direction and the panes
\* of its two subtrees; ps lists the panes of t
RECURSIVE SplitsOf(_, _)
SplitsOf(t, ps) ==
    IF t.kind # "node" THEN << >>
    ELSE <<[direction |-> t.data[1].direction,
            first |-> SubSeq(ps, 1, leaf_count(t.left)),
            second |-> SubSeq(ps, leaf_count(t.left) + 1, Len(ps))]>>
         \o SplitsOf(t.left, SubSeq(ps, 1, leaf_count(t.left)))
         \o SplitsOf(t.right, SubSeq(ps, leaf_count(t.left) + 1, Len(ps)))

Lefts(ps) == {ps[i].left : i \in 1..Len(ps)}
Rights(ps) == {ps[i].left + ps[i].width : i \in 1..Len(ps)}
Tops(ps) == {ps[i].top : i \in 1..Len(ps)}
Bottoms(ps) == {ps[i].top + ps[i].height : i \in 1..Len(ps)}

\* the divider sp lies between the panes of the subtrees of the split node s
OnBoundary(sp, s) ==
    /\ sp.direction = s.direction
    /\ IF s.direction = Horizontal
       THEN /\ sp.left = MinOf(Lefts(s.second)) - 1
            /\ sp.left = MaxOf(Rights(s.first))
            /\ sp.top = MinOf(Tops(s.first \o s.second))
            /\ sp.size = MaxOf(Bottoms(s.first \o s.second)) - sp.top
       ELSE /\ sp.top = MinOf(Tops(s.second)) - 1
            /\ sp.top = MaxOf(Bottoms(s.first))
            /\ sp.left = MinOf(Lefts(s.first \o s.second))
            /\ sp.size = MaxOf(Rights(s.first \o s.second)) - sp.left

AllOnBoundary(dividers, nodes) ==
    /\ Len(dividers) = Len(nodes)
    /\ \A k \in 1..Len(nodes) : OnBoundary(dividers[k], nodes[k])

\* C14: after any sequence of assign_pane and split_and_insert calls every
\* PositionedSplit of iter_splits lies between the panes of its node's two
\* subtrees as iter_panes places them: a Horizontal one a cell left of the
\* second subtree and right after the first, from the subtree's top over its
\* height; a Vertical one likewise with top, left and width.
C14_DividerPlacement ==
    (TreeHeld /\ leaf_count(pane) > 0) =>
        AllOnBoundary(iter_splits(pane).dividers,
                      SplitsOf(pane, iter_panes(pane, size, active)))

\* the ids alloc_pane_id has returned so far, in allocation order
Allocated == [c \in 1..next_pane |-> alloc_pane_id(c - 1).id]

\* C15: the ids alloc_pane_id returns are strictly increasing in allocation
\* order, none is returned twice and none is zero.
C15_IdsIncreasingNonzero ==
    /\ \A i, j \in 1..Len(Allocated) : i < j => Allocated[i] < Allocated[j]
    /\ \A i \in 1..Len(Allocated) : Allocated[i] # 0
    /\ TreeHeld => \A p \in Range(Leaves(pane)) : p \in Range(Allocated) /\ p # 0

\* split_and_insert of a pane the tree holds returns an error: one of the two
\* Pane::resize calls failed
SplitResizeFails ==
    /\ TreeHeld
    /\ ~panicked'
    /\ last'.op = "split_and_insert"
    /\ last'.idx < leaf_count(pane)
    /\ last'.ret = None
    /\ pane' # pane

\* C16: when a pane's resize fails during split_and_insert the error is
\* returned and the tree is still updated: the new pane is the second child
\* of a new split node that carries the computed first and second sizes, as
\* after a split whose resize calls succeed.
C16_ResizeErrorStillSplits ==
    [][SplitResizeFails =>
        pane' = split_and_insert(pane, size, active, last'.idx, last'.dir,
                                 alloc_pane_id(next_pane).id, "none").slot]_vars

\* the node n recomputed, as C17 says, from the node o it was and its slot
RecomputedNode(o, n, rows, cols) ==
    IF o.direction = Horizontal
    THEN /\ n.first.rows = rows
         /\ n.second.rows = rows
         /\ n.first.cols = o.first.cols
         /\ n.second.cols = cols - (o.first.cols + 1)
    ELSE /\ n.first.cols = cols
         /\ n.second.cols = cols
         /\ n.first.rows = o.first.rows
         /\ n.second.rows = rows - (o.first.rows + 1)

\* every split node of the tree u is the node of t recomputed from the slot
\* its parent assigns to it, rows x cols at the root
RECURSIVE Recomputed(_, _, _, _)
Recomputed(t, u, rows, cols) ==
    IF t.kind # "node" THEN u = t
    ELSE /\ u.kind = "node"
         /\ u.data # None
         /\ RecomputedNode(t.data[1], u.data[1], rows, cols)
         /\ Recomputed(t.left, u.left, u.data[1].first.rows, u.data[1].first.cols)
         /\ Recomputed(t.right, u.right, u.data[1].second.rows, u.data[1].second.cols)

\* Tab::resize returns
ResizeReturns ==
    /\ TreeHeld
    /\ ~panicked'
    /\ last'.op = "resize"
    /\ dead' = dead
    /\ main_tasks' = main_tasks

\* C17: resize(new_size) recomputes every split node from the slot its parent
\* assigns to it (new_size at the root) and by the node's own direction:
\* Horizontal, first.rows = second.rows = slot rows and second.cols = slot
\* cols - (first.cols + 1); Vertical, first.cols = second.cols = slot cols and
\* second.rows = slot rows - (first.rows + 1). A resize to the current size
\* changes no node.
C17_ResizeFromSlot ==
    [][ResizeReturns =>
        /\ Recomputed(pane, pane', size'.rows, size'.cols)
        /\ (size' = size => pane' = pane)]_vars

\* the calls of log to the pane p
CallsTo(log, p) == SelectSeq(log, LAMBDA c : c.pane = p)

\* every pane of the list panes has one call in log, with its height and width
EachResizedOnce(log, panes) ==
    /\ Len(log) = Len(panes)
    /\ \A i \in 1..Len(panes) :
           /\ Len(CallsTo(log, panes[i].pane)) = 1
           /\ CallsTo(log, panes[i].pane)[1].size.rows = panes[i].height
           /\ CallsTo(log, panes[i].pane)[1].size.cols = panes[i].width

\* C18: when resize(new_size) returns, every leaf pane has received exactly
\* one Pane::resize call, with the rows and cols that iter_panes then reports
\* as the pane's height and width (new_size for a root leaf).
C18_LeavesResizedOnce ==
    [][ResizeReturns =>
        /\ EachResizedOnce(resized', iter_panes(pane', size', active'))
        /\ (pane.kind = "leaf" => resized' = <<ResizeCall(pane.leaf, size')>>)]_vars

\* a resize returned on a tree of three panes that got different widths
C18_Witness ==
    /\ TreeHeld
    /\ last.op = "resize"
    /\ leaf_count(pane) = 3
    /\ Len(resized) = 3
    /\ \E i \in 1..3 : resized[i].size.cols # resized[1].size.cols

\* prune_dead_panes returns, having run on a tree with a split at the root
PruneReturns ==
    /\ TreeHeld
    /\ ~panicked'
    /\ Len(main_tasks') = Len(main_tasks) + 1
    /\ pane.kind = "node"

\* C19: when prune_dead_panes returns, the leaves of the tree are the panes
\* that were alive, in the pre-order they had: no dead pane is left, also
\* when the sibling of a dead leaf is a dead leaf or a split node or several
\* leaves are dead.
C19_PruneRemovesDead ==
    [][PruneReturns =>
        Leaves(pane') = SelectSeq(Leaves(pane), LAMBDA p : p \notin dead)]_vars

\* prune_dead_panes returns, having run on a tree that is one dead root leaf
PrunesRootLeaf ==
    /\ TreeHeld
    /\ ~panicked'
    /\ Len(main_tasks') = Len(main_tasks) + 1
    /\ pane.kind = "leaf"
    /\ pane.leaf \in dead

\* C20: prune_dead_panes on a tree that is a single dead root leaf leaves the
\* tree empty (iter_panes returns the empty list) and resizes no pane, and
\* is_dead then returns true.
C20_DeadRootLeafPruned ==
    [][PrunesRootLeaf =>
        /\ iter_panes(pane', size', active') = << >>
        /\ resized' = << >>
        /\ is_dead(pane', size', active', dead')]_vars

\* the number of leaves of t before the position path in pre-order
RECURSIVE LeavesBefore(_, _)
LeavesBefore(t, path) ==
    IF path = << >> THEN 0
    ELSE IF Head(path) = "L" THEN LeavesBefore(t.left, Tail(path))
    ELSE leaf_count(t.left) + LeavesBefore(t.right, Tail(path))

\* the active index the walk of prune_dead_panes ends with when every dead
\* leaf it prunes is compared by its pre-order position in the tree as the
\* cursor c holds it at that moment
RECURSIVE ActiveByPosition(_, _, _)
ActiveByPosition(c, active_idx, dead_set) ==
    IF is_leaf(c) /\ it(c).leaf \in dead_set
    THEN IF unsplit_leaf(c).ok
         THEN IF preorder_next(unsplit_leaf(c).c).ok
              THEN ActiveByPosition(preorder_next(unsplit_leaf(c).c).c,
                                    prune_active(LeavesBefore(c.tree, c.path), active_idx),
                                    dead_set)
              ELSE prune_active(LeavesBefore(c.tree, c.path), active_idx)
         ELSE prune_active(LeavesBefore(c.tree, c.path), active_idx)
    ELSE IF preorder_next(c).ok
         THEN ActiveByPosition(preorder_next(c).c, active_idx, dead_set)
         ELSE active_idx

\* prune_dead_panes returns
PruneDone ==
    /\ TreeHeld
    /\ ~panicked'
    /\ Len(main_tasks') = Len(main_tasks) + 1

\* C21: prune_dead_panes changes the active index only when the index of a
\* leaf it prunes equals it, to that index minus one (0 at 0), the index
\* compared being the leaf's pre-order position in the tree at that moment
\* of the walk.
C21_ActiveRepair ==
    [][PruneDone => active' = ActiveByPosition(cursor(pane), active, dead)]_vars

\* the chunks cs, all sent to the pane p, start at offset 0 and each starts
\* where the one before it ended, further on
InOffsetOrder(cs, p) ==
    /\ \A i \in 1..Len(cs) : cs[i].pane = p
    /\ Len(cs) > 0 => cs[1].from = 0
    /\ \A i \in 1..(Len(cs) - 1) :
           cs[i + 1].from = cs[i].to /\ cs[i + 1].from > cs[i].from

\* a step sends at most one chunk, that of the paste whose offset it advances
OneChunkPerTurn ==
    /\ Len(sent') <= Len(sent) + 1
    /\ \A k \in 1..Len(pastes) :
           pastes'[k] # pastes[k] =>
               /\ \A j \in 1..Len(pastes) : j # k => pastes'[j] = pastes[j]
               /\ sent' = Append(sent, SendPaste(pastes[k].pane_id, k,
                                                 pastes[k].offset, pastes'[k].offset))

\* C22: the chunks of one trickle_paste reach the pane in strictly increasing
\* offset order, one per scheduler turn, each starting where the one before
\* ended (none lost, none sent twice), also when the tasks of two pastes to
\* the same pane interleave: a task advances the offset of its own paste only.
C22_PasteOrder ==
    /\ [](\A k \in 1..Len(pastes) : InOffsetOrder(SentOf(k), pastes[k].pane_id))
    /\ [][OneChunkPerTurn]_vars

\* two pastes to one pane whose chunks interleave: a chunk of the second
\* arrives between two chunks of the first
C22_Witness ==
    /\ ~panicked
    /\ \E i, j, l \in 1..Len(sent) :
           /\ i < j /\ j < l
           /\ sent[i].paste = 1 /\ sent[j].paste = 2 /\ sent[l].paste = 1
           /\ sent[i].pane = sent[j].pane
           /\ sent[j].from > 0

\* max(1, ceil(n / 1024))
ChunksOf(n) ==
    IF n = 0 THEN 1 ELSE (n + PASTE_CHUNK_SIZE - 1) \div PASTE_CHUNK_SIZE

\* the paste k of n bytes, its pane registered: a short text is sent in the
\* call and has no task, a long one never has an empty chunk, and a paste
\* with no task left has made exactly ChunksOf(n) send_paste calls
PasteCounts(k, n, cs) ==
    /\ n <= PASTE_CHUNK_SIZE => (k \notin paste_tasks /\ Len(cs) = 1)
    /\ n > PASTE_CHUNK_SIZE => \A i \in 1..Len(cs) : cs[i].to > cs[i].from
    /\ k \notin paste_tasks => Len(cs) = ChunksOf(n)

\* C23: with its pane registered and a fair scheduler, a trickle_paste of n
\* bytes stops rescheduling, after exactly max(1, ceil(n / 1024)) send_paste
\* calls: one call and no task for n <= 1024; for n > 1024 no empty chunk,
\* and the last task schedules no other.
C23_PasteTerminates ==
    /\ [](\A k \in 1..Len(pastes) :
             pastes[k].pane_id \in registered =>
                 PasteCounts(k, pastes[k].text.len, SentOf(k)))
    /\ \A k \in 1..MaxPastes :
           (k \in paste_tasks) ~> (k \notin paste_tasks \/ panicked)

SamePlace(a, b) ==
    /\ a.pane = b.pane
    /\ a.left = b.left
    /\ a.top = b.top
    /\ a.width = b.width
    /\ a.height = b.height

\* every pane of before but the one at index n is in after where it was, the
\* panes past n one index further
OthersKept(before, after, n) ==
    /\ Len(after) = Len(before) + 1
    /\ \A i \in 1..Len(before) :
           /\ i < n + 1 => (SamePlace(after[i], before[i]) /\ after[i].index = i - 1)
           /\ i > n + 1 => (SamePlace(after[i + 1], before[i]) /\ after[i + 1].index = i)

\* the tree u is the tree t with one split node more, in the place of the
\* leaf at path
OneNodeMore(t, u, path) ==
    /\ At(u, path).kind = "node"
    /\ At(u, path).left = At(t, path)
    /\ At(u, path).right.kind = "leaf"
    /\ Put(u, path, At(t, path)) = t

\* C24: a split_and_insert(n, ..) that inserts the pane leaves every other
\* pane than pane n with the left, top, width and height iter_panes reported
\* for it, in the same pre-order (the panes past n one index further), and
\* changes no split node: it only adds the new one.
C24_SplitFrame ==
    [][SplitSucceeds =>
        /\ OthersKept(iter_panes(pane, size, active),
                      iter_panes(pane', size', active'), last'.idx)
        /\ OneNodeMore(pane, pane', PathOf(pane, Leaves(pane)[last'.idx + 1]))]_vars

\* a split of the middle pane of three, under a split that is not the root
C24_Witness ==
    /\ TreeHeld
    /\ last.op = "split_and_insert"
    /\ last.ret = Some(2)
    /\ leaf_count(pane) = 4
    /\ pane.kind = "node"
    /\ pane.left.kind = "node"
    /\ pane.left.right.kind = "node"

\* C25: when the active pane is alive as prune_dead_panes runs,
\* get_active_pane returns the same pane after it, whichever other panes,
\* before or after it in pre-order, were pruned.
C25_ActivePaneKept ==
    [][(/\ PruneDone
        /\ get_active_pane(pane, size, active) # None
        /\ get_active_pane(pane, size, active)[1] \notin dead) =>
            get_active_pane(pane', size', active')
                = get_active_pane(pane, size, active)]_vars

====
